---- MODULE Spec2Model ----
(***************************************************************************)
(* A model of tinyjira: the sprint re-planning algorithm (replan.js, kept   *)
(* in src/server.js lines 88-283) and the CSV-backed task store of the      *)
(* server (src/unnamed/part_000).                                           *)
(*                                                                          *)
(* Two specifications share the module:                                     *)
(*   SpecSched  one run of replan(issues, teamCapacity), one action per     *)
(*              loop iteration of topoSort and of the placement loop;       *)
(*   Spec       the server process: GET /api/tasks (readTasks),             *)
(*              PUT /api/tasks (writeTasks) and the edits a client makes    *)
(*              to the state it holds between the two.                      *)
(***************************************************************************)
EXTENDS Integers, Sequences, FiniteSets, TLC

VARIABLES
    \* ---- replan -------------------------------------------------------
    pc,              \* position in replan: start, topo, place, done, idle
    issues,          \* the issues array (records; sprint mutated in place)
    teamCapacity,    \* member -> hours per sprint (partial)
    inDegree,        \* topoSort: id -> number of unmet dependencies
    dependents,      \* topoSort: id -> ids to release, in push order
    queue,           \* topoSort: the ready list (positions in issues)
    sorted,          \* topoSort result so far / replan's sorted
    idx,             \* number of entries of sorted already placed
    sprintRemaining, \* <<sprint, member>> -> hours left (lazily filled)
    issueSprint,     \* id -> sprint decided by this run
    overflowed,      \* ghost: ids placed because the scan left the loop at
                     \* "if (sprint > 100) break"
    \* ---- the server and its client --------------------------------------
    file,            \* the tasks file: [exists, text]
    csvHeaders,      \* module variable csvHeaders
    csvDataRows,     \* module variable csvDataRows
    colIndices,      \* module variable colIndices (0-based, -1 absent)
    client,          \* the state container the client holds
    edits,           \* number of edits the client has made
    last,            \* ghost: the last operation and what it started from
    other,           \* the state container a second client holds
    \* ---- the CSV codec on its own ------------------------------------------
    codec            \* [pc, headers, rows, text, parsed]

schedVars == <<pc, issues, teamCapacity, inDegree, dependents, queue,
               sorted, idx, sprintRemaining, issueSprint, overflowed>>

storeVars == <<file, csvHeaders, csvDataRows, colIndices, client, edits,
               last, other>>

vars == <<schedVars, storeVars, codec>>

-----------------------------------------------------------------------------
(* Generic helpers *)

Max(a, b) == IF a >= b THEN a ELSE b

Range(s) == {s[i] : i \in 1..Len(s)}

\* the element of a one-element set
TheOne(S) == CHOOSE x \in S : TRUE

\* UTF-16 code unit order of the characters that occur in issue keys
CharCode(c) ==
    CASE c = " " -> 32 [] c = "-" -> 45
      [] c = "0" -> 48 [] c = "1" -> 49 [] c = "2" -> 50 [] c = "3" -> 51
      [] c = "4" -> 52 [] c = "5" -> 53 [] c = "6" -> 54 [] c = "7" -> 55
      [] c = "8" -> 56 [] c = "9" -> 57
      [] c = "A" -> 65 [] c = "B" -> 66 [] c = "S" -> 83 [] c = "X" -> 88
      [] OTHER -> 127

\* JavaScript's a < b on strings: lexicographic by code unit
RECURSIVE StrLess(_, _)
StrLess(a, b) ==
    IF b = "" THEN FALSE
    ELSE IF a = "" THEN TRUE
    ELSE IF Head(a) = Head(b) THEN StrLess(Tail(a), Tail(b))
    ELSE CharCode(Head(a)) < CharCode(Head(b))


-----------------------------------------------------------------------------
(* replan.js: the scheduling engine *)

\* Bound of the scheduling inputs: the number of changes that separate an
\* input from the baseline issue list
MaxChanges == 3

\* the ids of the input issues
IssueIds == {1, 2, 3}

\* the sprint ceiling of the scan and the default capacity
SprintCeiling == 100
DefaultCapacity == 80

\* an id that no issue of the list has
DanglingId == Cardinality(IssueIds) + 1

Priorities == <<"high", "medium", "low">>

\* (assignee, estimateHours) of an input issue: unassigned, unestimated,
\* one that fits once per default sprint, another member, one that fits no
\* default sprint
Loads == <<<<"", 50>>, <<"Al", 0>>, <<"Al", 50>>, <<"Bo", 50>>, <<"Al", 90>>>>

\* the capacity tables tried: empty (everybody 80) and Al with 100
CapacityTables == {<<>>, [m \in {"Al"} |-> 100]}

\* issue keys, unique, not in id order
KeyOf(id) ==
    CASE id = 1 -> "SB-2" [] id = 2 -> "SB-10" [] id = 3 -> "SB-1"
      [] OTHER -> "SB-" \o ToString(id)

\* the baseline input: medium issues of Al, 50 hours each, no dependencies,
\* sprint 1 as csvRowToIssue leaves it
BaseIssues ==
    [id \in 1..Cardinality(IssueIds) |->
        [id |-> id, key |-> KeyOf(id), priority |-> "medium",
         assignee |-> "Al", estimateHours |-> 50, dependsOn |-> <<>>,
         sprint |-> 1]]

\* a change of the input: <<kind, position, choice>>, kind 0 for none,
\* 1 for another priority, 2 for another (assignee, estimate), 3 for one
\* more entry in the dependsOn array
InputChanges ==
    {<<0, 0, 0>>}
    \cup {<<1, i, k>> : i \in DOMAIN BaseIssues, k \in DOMAIN Priorities}
    \cup {<<2, i, k>> : i \in DOMAIN BaseIssues, k \in DOMAIN Loads}
    \cup {<<3, i, d>> : i \in DOMAIN BaseIssues, d \in 1..DanglingId}

ApplyChange(iss, c) ==
    CASE c[1] = 1 -> [iss EXCEPT ![c[2]].priority = Priorities[c[3]]]
      [] c[1] = 2 -> [iss EXCEPT ![c[2]].assignee = Loads[c[3]][1],
                                 ![c[2]].estimateHours = Loads[c[3]][2]]
      [] c[1] = 3 -> [iss EXCEPT ![c[2]].dependsOn = Append(@, c[3])]
      [] OTHER -> iss

\* the baseline after the changes cs[1], ..., cs[n]
RECURSIVE ApplyChanges(_, _)
ApplyChanges(cs, n) ==
    IF n = 0 THEN BaseIssues
    ELSE ApplyChange(ApplyChanges(cs, n - 1), cs[n])

\* priorityWeight(priority)
\* a variant of priorityWeight with the weights reversed
priorityWeightReversed(priority) ==
    CASE priority = "high" -> 2
      [] priority = "medium" -> 1
      [] priority = "low" -> 0
      [] OTHER -> 3

priorityWeight(priority) ==
    CASE priority = "high" -> 0
      [] priority = "medium" -> 1
      [] priority = "low" -> 2
      [] OTHER -> 3

\* a variant of Before that compares the priority weights only
BeforeIgnoringKey(a, b) ==
    priorityWeight(a.priority) < priorityWeight(b.priority)

\* the comparator of topoSort's two sorts, as "a sorts strictly before b"
Before(a, b) ==
    LET pw == priorityWeight(a.priority) - priorityWeight(b.priority)
    IN  pw < 0 \/ (pw = 0 /\ StrLess(a.key, b.key))

\* a variant of insertFreed that always appends
insertFreedAtEnd(iss, q, f) == Append(q, f)

\* the insertion loop of topoSort: f goes before the first queue entry it
\* sorts strictly before, else to the end.  q and f are positions in iss.
RECURSIVE insertFreed(_, _, _)
insertFreed(iss, q, f) ==
    IF q = <<>> THEN <<f>>
    ELSE IF Before(iss[f], iss[Head(q)]) THEN <<f>> \o q
    ELSE <<Head(q)>> \o insertFreed(iss, Tail(q), f)

\* Array.prototype.sort with topoSort's comparator (stable)
RECURSIVE sortByPriority(_, _)
sortByPriority(iss, s) ==
    IF s = <<>> THEN <<>>
    ELSE insertFreed(iss, sortByPriority(iss, SubSeq(s, 1, Len(s) - 1)),
                     s[Len(s)])

\* byId[issue.id] = issue, for every issue in list order (the last one wins)
byId(iss) ==
    [id \in {iss[k].id : k \in 1..Len(iss)} |->
        CHOOSE k \in 1..Len(iss) :
            /\ iss[k].id = id
            /\ \A j \in (k + 1)..Len(iss) : iss[j].id # id]

\* a variant of addDeps that records no dependency
addDepsUncounted(iss, adj, id, deps) == adj

\* the adjacency loop of topoSort for one issue's deps array
RECURSIVE addDeps(_, _, _, _)
addDeps(iss, adj, id, deps) ==
    IF deps = <<>> THEN adj
    ELSE LET depId == Head(deps)
             next ==
                 IF depId \in DOMAIN byId(iss)
                 THEN [inDegree |->
                           [adj.inDegree EXCEPT ![id] = @ + 1],
                       dependents |->
                           [adj.dependents EXCEPT ![depId] = Append(@, id)]]
                 ELSE adj
         IN  addDeps(iss, next, id, Tail(deps))

\* the adjacency loop of topoSort over the issues k..Len(iss)
RECURSIVE buildAdjacency(_, _, _)
buildAdjacency(iss, adj, k) ==
    IF k > Len(iss) THEN adj
    ELSE buildAdjacency(iss,
                        addDeps(iss, adj, iss[k].id, iss[k].dependsOn),
                        k + 1)

\* topoSort up to the seeding of the queue
topoSeed(iss) ==
    LET ids == {iss[k].id : k \in 1..Len(iss)}
        adj == buildAdjacency(iss,
                              [inDegree |-> [id \in ids |-> 0],
                               dependents |-> [id \in ids |-> <<>>]],
                              1)
        zero == SelectSeq([k \in 1..Len(iss) |-> k],
                          LAMBDA k : adj.inDegree[iss[k].id] = 0)
    IN  [inDegree |-> adj.inDegree,
         dependents |-> adj.dependents,
         queue |-> sortByPriority(iss, zero),
         result |-> <<>>]

\* the forEach over dependents[issue.id]: decrement, collect the freed
RECURSIVE release(_, _, _, _)
release(iss, inDeg, freed, deps) ==
    IF deps = <<>> THEN [inDegree |-> inDeg, freed |-> freed]
    ELSE LET depId == Head(deps)
             d == [inDeg EXCEPT ![depId] = @ - 1]
         IN  release(iss, d,
                     IF d[depId] = 0 THEN Append(freed, byId(iss)[depId])
                     ELSE freed,
                     Tail(deps))

RECURSIVE insertAll(_, _, _)
insertAll(iss, q, fs) ==
    IF fs = <<>> THEN q
    ELSE insertAll(iss, insertFreed(iss, q, Head(fs)), Tail(fs))

\* one iteration of "while (queue.length > 0)" in topoSort
topoStep(iss, t) ==
    LET issue == Head(t.queue)
        rel == release(iss, t.inDegree, <<>>, t.dependents[iss[issue].id])
    IN  [inDegree |-> rel.inDegree,
         dependents |-> t.dependents,
         queue |-> insertAll(iss, Tail(t.queue),
                             sortByPriority(iss, rel.freed)),
         result |-> Append(t.result, issue)]

\* topoSort(issues): the loop run to the end (the result as positions)
RECURSIVE topoRun(_, _)
topoRun(iss, t) ==
    IF t.queue = <<>> THEN t.result ELSE topoRun(iss, topoStep(iss, t))

topoSort(iss) == topoRun(iss, topoSeed(iss))

\* getRemaining(sprint, member): the table after the lazy initialisation
getRemaining(cap, rem, sprint, member) ==
    IF <<sprint, member>> \in DOMAIN rem THEN rem
    ELSE rem @@ (<<sprint, member>> :>
                    (IF member \in DOMAIN cap THEN cap[member]
                     ELSE DefaultCapacity))

\* a variant of consumeHours that deducts nothing
consumeNoHours(cap, rem, sprint, member, hours) ==
    getRemaining(cap, rem, sprint, member)

\* consumeHours(sprint, member, hours)
consumeHours(cap, rem, sprint, member, hours) ==
    LET r == getRemaining(cap, rem, sprint, member)
    IN  [r EXCEPT ![<<sprint, member>>] = @ - hours]

\* a variant of scan that takes the first sprint whatever remains in it
scanFirstSprint(cap, rem, sprint, member, hours) ==
    [sprint |-> sprint,
     rem |-> getRemaining(cap, rem, sprint, member),
     passed |-> FALSE]

\* the "while (true)" scan of replan, entered with sprint
RECURSIVE scan(_, _, _, _, _)
scan(cap, rem, sprint, member, hours) ==
    LET r == getRemaining(cap, rem, sprint, member)
    IN  IF r[<<sprint, member>>] >= hours
        THEN [sprint |-> sprint, rem |-> r, passed |-> FALSE]
        ELSE IF sprint + 1 > SprintCeiling
        THEN [sprint |-> sprint + 1, rem |-> r, passed |-> TRUE]
        ELSE scan(cap, r, sprint + 1, member, hours)

\* a variant of earliestOf that never raises earliest
earliestOfUnraised(isp, earliest, deps) == earliest

\* the forEach over deps that raises earliest
RECURSIVE earliestOf(_, _, _)
earliestOf(isp, earliest, deps) ==
    IF deps = <<>> THEN earliest
    ELSE earliestOf(isp,
                    IF Head(deps) \in DOMAIN isp /\ isp[Head(deps)] > earliest
                    THEN isp[Head(deps)] ELSE earliest,
                    Tail(deps))

\* a variant of placeOne whose capacity-free path reads the table
placeOneReading(cap, pl, p) ==
    LET issue == pl.issues[p]
        earliest == earliestOf(pl.issueSprint, 1, issue.dependsOn)
        hours == issue.estimateHours
        member == issue.assignee
    IN  IF member = "" \/ hours = 0
        THEN [issues |-> [pl.issues EXCEPT ![p].sprint = earliest],
              sprintRemaining |->
                  getRemaining(cap, pl.sprintRemaining, earliest, member),
              issueSprint |-> (issue.id :> earliest) @@ pl.issueSprint,
              overflowed |-> pl.overflowed]
        ELSE LET sc == scan(cap, pl.sprintRemaining, earliest, member, hours)
             IN  [issues |-> [pl.issues EXCEPT ![p].sprint = sc.sprint],
                  sprintRemaining |->
                      consumeHours(cap, sc.rem, sc.sprint, member, hours),
                  issueSprint |-> (issue.id :> sc.sprint) @@ pl.issueSprint,
                  overflowed |->
                      IF sc.passed THEN pl.overflowed \cup {issue.id}
                      ELSE pl.overflowed]

\* the body of sorted.forEach in replan for the issue at position p.
\* pl = [issues, sprintRemaining, issueSprint, overflowed]
placeOne(cap, pl, p) ==
    LET issue == pl.issues[p]
        earliest == earliestOf(pl.issueSprint, 1, issue.dependsOn)
        hours == issue.estimateHours
        member == issue.assignee
    IN  IF member = "" \/ hours = 0
        THEN [issues |-> [pl.issues EXCEPT ![p].sprint = earliest],
              sprintRemaining |-> pl.sprintRemaining,
              issueSprint |-> (issue.id :> earliest) @@ pl.issueSprint,
              overflowed |-> pl.overflowed]
        ELSE LET sc == scan(cap, pl.sprintRemaining, earliest, member, hours)
             IN  [issues |-> [pl.issues EXCEPT ![p].sprint = sc.sprint],
                  sprintRemaining |->
                      consumeHours(cap, sc.rem, sc.sprint, member, hours),
                  issueSprint |-> (issue.id :> sc.sprint) @@ pl.issueSprint,
                  overflowed |->
                      IF sc.passed THEN pl.overflowed \cup {issue.id}
                      ELSE pl.overflowed]

\* sorted.forEach, from entry k of the order on
RECURSIVE placeFrom(_, _, _, _)
placeFrom(cap, pl, order, k) ==
    IF k > Len(order) THEN pl
    ELSE placeFrom(cap, placeOne(cap, pl, order[k]), order, k + 1)

\* replan(issues, teamCapacity): the order returned and the issues as left
replan(iss, cap) ==
    LET order == topoSort(iss)
        pl == placeFrom(cap,
                        [issues |-> iss, sprintRemaining |-> <<>>,
                         issueSprint |-> <<>>, overflowed |-> {}],
                        order, 1)
    IN  [sorted |-> order, issues |-> pl.issues]

-----------------------------------------------------------------------------
(* The run of replan as a state machine *)

\* the codec variable while no call of the codec is modelled
CodecIdle == [pc |-> "idle"]

\* the server as the process starts it, no request made
StoreIdle ==
    /\ file = [exists |-> FALSE, text |-> ""]
    /\ csvHeaders = <<>>
    /\ csvDataRows = <<>>
    /\ colIndices = <<>>
    /\ client = <<>>
    /\ edits = 0
    /\ last = <<>>
    /\ other = <<>>
    /\ codec = CodecIdle

SchedInit ==
    /\ pc = "start"
    /\ \E cs \in [1..MaxChanges -> InputChanges] :
          issues = ApplyChanges(cs, MaxChanges)
    /\ teamCapacity \in CapacityTables
    /\ inDegree = <<>>
    /\ dependents = <<>>
    /\ queue = <<>>
    /\ sorted = <<>>
    /\ idx = 0
    /\ sprintRemaining = <<>>
    /\ issueSprint = <<>>
    /\ overflowed = {}
    /\ StoreIdle

\* topoSort up to "var result = []"
TopoSeed ==
    /\ pc = "start"
    /\ LET t == topoSeed(issues)
       IN  /\ inDegree' = t.inDegree
           /\ dependents' = t.dependents
           /\ queue' = t.queue
           /\ sorted' = t.result
    /\ pc' = "topo"
    /\ UNCHANGED <<issues, teamCapacity, idx, sprintRemaining, issueSprint,
                   overflowed>>
    /\ UNCHANGED <<storeVars, codec>>

\* one iteration of the while loop of topoSort
TopoStep ==
    /\ pc = "topo"
    /\ queue # <<>>
    /\ LET t == topoStep(issues, [inDegree |-> inDegree,
                                  dependents |-> dependents,
                                  queue |-> queue, result |-> sorted])
       IN  /\ inDegree' = t.inDegree
           /\ queue' = t.queue
           /\ sorted' = t.result
    /\ UNCHANGED <<pc, issues, teamCapacity, dependents, idx,
                   sprintRemaining, issueSprint, overflowed>>
    /\ UNCHANGED <<storeVars, codec>>

\* the while loop ends; replan goes on with the sorted list
TopoReturn ==
    /\ pc = "topo"
    /\ queue = <<>>
    /\ pc' = "place"
    /\ UNCHANGED <<issues, teamCapacity, inDegree, dependents, queue, sorted,
                   idx, sprintRemaining, issueSprint, overflowed>>
    /\ UNCHANGED <<storeVars, codec>>

\* one call of the sorted.forEach callback
PlaceStep ==
    /\ pc = "place"
    /\ idx < Len(sorted)
    /\ LET pl == placeOne(teamCapacity,
                          [issues |-> issues,
                           sprintRemaining |-> sprintRemaining,
                           issueSprint |-> issueSprint,
                           overflowed |-> overflowed],
                          sorted[idx + 1])
       IN  /\ issues' = pl.issues
           /\ sprintRemaining' = pl.sprintRemaining
           /\ issueSprint' = pl.issueSprint
           /\ overflowed' = pl.overflowed
    /\ idx' = idx + 1
    /\ UNCHANGED <<pc, teamCapacity, inDegree, dependents, queue, sorted>>
    /\ UNCHANGED <<storeVars, codec>>

\* "return sorted"
ReplanReturn ==
    /\ pc = "place"
    /\ idx = Len(sorted)
    /\ pc' = "done"
    /\ UNCHANGED <<issues, teamCapacity, inDegree, dependents, queue, sorted,
                   idx, sprintRemaining, issueSprint, overflowed>>
    /\ UNCHANGED <<storeVars, codec>>

SchedNext ==
    \/ TopoSeed
    \/ TopoStep
    \/ TopoReturn
    \/ PlaceStep
    \/ ReplanReturn

SpecSched == SchedInit /\ [][SchedNext]_vars

-----------------------------------------------------------------------------
(* The server (src/unnamed/part_000): strings *)

Whitespace == {" ", "\t", "\n", "\r"}
Digits == "0123456789"
UpperCase == "ABCDEFGHIJKLMNOPQRSTUVWXYZ"
LowerCase == "abcdefghijklmnopqrstuvwxyz"

\* the 1-based position of character c in s, 0 when absent
RECURSIVE IndexIn(_, _, _)
IndexIn(s, c, k) ==
    IF k > Len(s) THEN 0
    ELSE IF SubSeq(s, k, k) = c THEN k
    ELSE IndexIn(s, c, k + 1)

\* String.prototype.includes for a single character
Includes(s, c) == IndexIn(s, c, 1) > 0

\* String.prototype.toLowerCase (ASCII letters)
RECURSIVE toLowerCase(_)
toLowerCase(s) ==
    IF s = "" THEN ""
    ELSE LET k == IndexIn(UpperCase, Head(s), 1)
         IN  (IF k > 0 THEN SubSeq(LowerCase, k, k) ELSE Head(s))
                 \o toLowerCase(Tail(s))

RECURSIVE trimStart(_)
trimStart(s) ==
    IF s # "" /\ Head(s) \in Whitespace THEN trimStart(Tail(s)) ELSE s

RECURSIVE trimEnd(_)
trimEnd(s) ==
    IF s # "" /\ SubSeq(s, Len(s), Len(s)) \in Whitespace
    THEN trimEnd(SubSeq(s, 1, Len(s) - 1))
    ELSE s

\* String.prototype.trim
trim(s) == trimEnd(trimStart(s))

\* the value of the longest run of decimal digits s starts with, from acc;
\* <<>> when s starts with no digit and none was read before
RECURSIVE digitsValue(_, _, _)
digitsValue(s, acc, any) ==
    LET d == IF s = "" THEN 0 ELSE IndexIn(Digits, Head(s), 1)
    IN  IF d = 0 THEN (IF any THEN <<acc>> ELSE <<>>)
        ELSE digitsValue(Tail(s), 10 * acc + (d - 1), TRUE)

\* parseInt(s, 10): <<n>>, or <<>> for NaN
parseInt(s) ==
    LET t == trimStart(s)
        neg == t # "" /\ Head(t) = "-"
        signed == t # "" /\ Head(t) \in {"-", "+"}
        v == digitsValue(IF signed THEN Tail(t) ELSE t, 0, FALSE)
    IN  IF v = <<>> THEN <<>>
        ELSE IF neg THEN <<0 - v[1]>> ELSE v

isNaN(v) == v = <<>>

\* Array.prototype.join
RECURSIVE join(_, _)
join(parts, sep) ==
    IF parts = <<>> THEN ""
    ELSE IF Len(parts) = 1 THEN parts[1]
    ELSE parts[1] \o sep \o join(Tail(parts), sep)

\* String.prototype.split on one character
RECURSIVE splitOn(_, _, _)
splitOn(s, c, cur) ==
    IF s = "" THEN <<cur>>
    ELSE IF Head(s) = c THEN <<cur>> \o splitOn(Tail(s), c, "")
    ELSE splitOn(Tail(s), c, cur \o Head(s))

\* Array.prototype.indexOf, 0-based, -1 when absent
RECURSIVE indexOf(_, _, _)
indexOf(arr, x, k) ==
    IF k > Len(arr) THEN -1
    ELSE IF arr[k] = x THEN k - 1
    ELSE indexOf(arr, x, k + 1)

\* [...new Set(arr)]: the first occurrence of every entry, in order
RECURSIVE dedupe(_, _)
dedupe(arr, seen) ==
    IF arr = <<>> THEN <<>>
    ELSE IF Head(arr) \in seen THEN dedupe(Tail(arr), seen)
    ELSE <<Head(arr)>> \o dedupe(Tail(arr), seen \cup {Head(arr)})

-----------------------------------------------------------------------------
(* The server: CSV codec *)

\* the index of the first character from i on that is one of stops,
\* Len(text) + 1 when there is none
RECURSIVE plainEnd(_, _, _)
plainEnd(text, i, stops) ==
    IF i > Len(text) \/ SubSeq(text, i, i) \in stops THEN i
    ELSE plainEnd(text, i + 1, stops)

\* the while loop of parseCSV from character i (1-based) up to and including
\* the iteration that pushes a row, or to the end of the text; the
\* iterations of the "field += ch" branches are taken as one run.
\* st = [rows, row, field, inQuotes]; the result is [i, st]
RECURSIVE parseRow(_, _, _)
parseRow(text, i, st) ==
    IF i > Len(text) THEN [i |-> i, st |-> st]
    ELSE
    LET j == plainEnd(text, i, IF st.inQuotes THEN {"\""}
                               ELSE {"\"", ",", "\n", "\r"})
        run == [st EXCEPT !.field = @ \o SubSeq(text, i, j - 1)]
        ch == SubSeq(text, j, j)
        nx == IF j + 1 <= Len(text) THEN SubSeq(text, j + 1, j + 1) ELSE ""
    IN  IF j > Len(text) THEN [i |-> j, st |-> run]
        ELSE IF st.inQuotes
        THEN IF nx = "\""
             THEN parseRow(text, j + 2, [run EXCEPT !.field = @ \o "\""])
             ELSE parseRow(text, j + 1, [run EXCEPT !.inQuotes = FALSE])
        ELSE IF ch = "\""
             THEN parseRow(text, j + 1, [run EXCEPT !.inQuotes = TRUE])
        ELSE IF ch = ","
             THEN parseRow(text, j + 1,
                           [run EXCEPT !.row = Append(@, run.field),
                                       !.field = ""])
        ELSE IF ch = "\n" \/ (ch = "\r" /\ nx = "\n")
             THEN [i |-> IF ch = "\r" THEN j + 2 ELSE j + 1,
                   st |-> [run EXCEPT
                              !.rows = Append(@, Append(run.row, run.field)),
                              !.row = <<>>,
                              !.field = ""]]
        ELSE parseRow(text, j + 1, [run EXCEPT !.field = @ \o ch])

\* the while loop of parseCSV from character i on
RECURSIVE parseLoop(_, _, _)
parseLoop(text, i, st) ==
    IF i > Len(text) THEN st
    ELSE LET r == parseRow(text, i, st)
         IN  parseLoop(text, r.i, r.st)

\* parseCSV(text)
parseCSV(text) ==
    LET st == parseLoop(text, 1, [rows |-> <<>>, row |-> <<>>,
                                  field |-> "", inQuotes |-> FALSE])
        rows == IF st.field # "" \/ Len(st.row) > 0
                THEN Append(st.rows, Append(st.row, st.field))
                ELSE st.rows
    IN  [headers |-> IF rows = <<>> THEN <<>> ELSE rows[1],
         dataRows |-> SelectSeq(IF rows = <<>> THEN <<>> ELSE Tail(rows),
                                LAMBDA r : Len(r) > 1 \/ r[1] # "")]

\* val.replace(/"/g, '""')
RECURSIVE doubleQuotes(_)
doubleQuotes(val) ==
    IF val = "" THEN ""
    ELSE (IF Head(val) = "\"" THEN "\"\"" ELSE Head(val))
             \o doubleQuotes(Tail(val))

\* escapeField(val) of serializeCSV
escapeField(val) ==
    IF \/ Includes(val, ",") \/ Includes(val, "\"")
       \/ Includes(val, "\n") \/ Includes(val, "\r")
    THEN "\"" \o doubleQuotes(val) \o "\""
    ELSE val

\* one line of serializeCSV: the row padded or cut to the header length
csvLine(n, row) ==
    join([i \in 1..n |-> escapeField(IF i <= Len(row) THEN row[i] ELSE "")],
         ",")

\* serializeCSV(headers, dataRows)
serializeCSV(headers, dataRows) ==
    join(<<join([i \in 1..Len(headers) |-> escapeField(headers[i])], ",")>>
            \o [k \in 1..Len(dataRows) |-> csvLine(Len(headers), dataRows[k])],
         "\n") \o "\n"

-----------------------------------------------------------------------------
(* The server: vocabulary and row mapping *)

\* getCell(row, idx), the index 0-based
getCell(row, ix) ==
    IF ix < 0 \/ ix >= Len(row) THEN "" ELSE row[ix + 1]

\* setCell(row, idx, value): value is String(value) already
setCell(row, ix, value) ==
    IF ix < 0 THEN row
    ELSE [k \in 1..Max(Len(row), ix + 1) |->
            IF k = ix + 1 THEN value
            ELSE IF k <= Len(row) THEN row[k] ELSE ""]

\* STATUS_TO_INTERNAL
STATUS_TO_INTERNAL ==
    [k \in {"open", "to do", "backlog", "in refinement", "new", "reopened",
            "in progress", "in development", "in review",
            "done", "closed", "resolved"} |->
        IF k \in {"in progress", "in development", "in review"}
        THEN "inprogress"
        ELSE IF k \in {"done", "closed", "resolved"} THEN "done"
        ELSE "todo"]

mapStatusToInternal(csvStatus) ==
    LET key == trim(toLowerCase(csvStatus))
    IN  IF key \in DOMAIN STATUS_TO_INTERNAL THEN STATUS_TO_INTERNAL[key]
        ELSE "todo"

mapStatusToCSV(internalStatus) ==
    CASE internalStatus = "todo" -> "Open"
      [] internalStatus = "inprogress" -> "In Progress"
      [] internalStatus = "done" -> "Done"
      [] OTHER -> "Open"

\* PRIORITY_TO_INTERNAL
PRIORITY_TO_INTERNAL ==
    [k \in {"blocker", "critical", "highest", "high",
            "major", "medium", "normal",
            "minor", "low", "trivial", "lowest"} |->
        IF k \in {"blocker", "critical", "highest", "high"} THEN "high"
        ELSE IF k \in {"major", "medium", "normal"} THEN "medium"
        ELSE "low"]

mapPriorityToInternal(csvPriority) ==
    LET key == trim(toLowerCase(csvPriority))
    IN  IF key \in DOMAIN PRIORITY_TO_INTERNAL THEN PRIORITY_TO_INTERNAL[key]
        ELSE "medium"

mapPriorityToCSV(internalPriority) ==
    CASE internalPriority = "high" -> "Critical"
      [] internalPriority = "medium" -> "Major"
      [] internalPriority = "low" -> "Minor"
      [] OTHER -> "Major"

\* buildColIndices(headers): 0-based positions, -1 when absent
buildColIndices(headers) ==
    [summary |-> indexOf(headers, "Summary", 1),
     issueKey |-> indexOf(headers, "Issue key", 1),
     issueId |-> indexOf(headers, "Issue id", 1),
     issueType |-> indexOf(headers, "Issue Type", 1),
     status |-> indexOf(headers, "Status", 1),
     priority |-> indexOf(headers, "Priority", 1),
     assignee |-> indexOf(headers, "Assignee", 1),
     description |-> indexOf(headers, "Description", 1),
     originalEstimate |-> indexOf(headers, "Original Estimate", 1),
     depends |-> indexOf(headers, "Inward issue link (Depends)", 1),
     finishToStart |->
         indexOf(headers, "Inward issue link (Finish to Start)", 1),
     sprint |-> indexOf(headers, "Sprint", 1)]

\* parseDepsField(raw): split at /\s*;\s*/, trim, drop the empty tokens
parseDepsField(raw) ==
    IF trim(raw) = "" THEN <<>>
    ELSE SelectSeq([k \in DOMAIN splitOn(raw, ";", "") |->
                       trim(splitOn(raw, ";", "")[k])],
                   LAMBDA t : t # "")

\* csvRowToIssue(row).  id is parseInt's result (<<>> for NaN) until
\* readTasks has filtered; estimateHours is kept exactly, in seconds
\* (hours * 3600); dependsOn holds the tokens until readTasks resolves them
csvRowToIssue(col, row) ==
    LET estimateSec == parseInt(getCell(row, col.originalEstimate))
        deps1 == parseDepsField(getCell(row, col.depends))
        deps2 == parseDepsField(getCell(row, col.finishToStart))
    IN  [id |-> parseInt(getCell(row, col.issueId)),
         key |-> getCell(row, col.issueKey),
         title |-> getCell(row, col.summary),
         description |-> getCell(row, col.description),
         status |-> mapStatusToInternal(getCell(row, col.status)),
         priority |-> mapPriorityToInternal(getCell(row, col.priority)),
         assignee |-> getCell(row, col.assignee),
         estimateHours |-> IF isNaN(estimateSec) THEN 0 ELSE estimateSec[1],
         dependsOn |-> dedupe(deps1 \o deps2, {}),
         sprint |-> 1,
         rawRow |-> row]

\* issueToCSVRow(issue, existingRow): existingRow <<>> stands for null,
\* issue.rawRow <<>> for an issue without rawRow; issue.dependsOn holds
\* strings here (issuesForCSV)
issueToCSVRow(headers, col, issue, existingRow) ==
    LET row0 == IF issue.rawRow # <<>> THEN issue.rawRow
                ELSE IF existingRow # <<>> THEN existingRow
                ELSE [k \in 1..Len(headers) |-> ""]
        depsStr == join(issue.dependsOn, "; ")
        row1 == setCell(row0, col.summary, issue.title)
        row2 == setCell(row1, col.issueKey, issue.key)
        row3 == setCell(row2, col.issueId, ToString(issue.id))
        row4 == setCell(row3, col.status, mapStatusToCSV(issue.status))
        row5 == setCell(row4, col.priority, mapPriorityToCSV(issue.priority))
        row6 == setCell(row5, col.assignee, issue.assignee)
        row7 == setCell(row6, col.description, issue.description)
        row8 == setCell(row7, col.originalEstimate,
                        IF issue.estimateHours # 0
                        THEN ToString(issue.estimateHours) ELSE "")
        row9 == IF col.depends >= 0 THEN setCell(row8, col.depends, depsStr)
                ELSE row8
    IN  IF col.finishToStart >= 0
        THEN setCell(row9, col.finishToStart, depsStr)
        ELSE row9

-----------------------------------------------------------------------------
(* The server: readTasks and writeTasks *)

\* the headers writeTasks installs when none are loaded
DefaultHeaders ==
    <<"Summary", "Issue key", "Issue id", "Issue Type", "Status",
      "Project key", "Project name", "Project type", "Project lead",
      "Project description", "Project url", "Priority", "Resolution",
      "Assignee", "Reporter", "Creator", "Created", "Updated",
      "Last Viewed", "Resolved", "Affects Version/s", "Fix Version/s",
      "Component/s", "Due Date", "Votes", "Description",
      "Inward issue link (Depends)", "Inward issue link (Finish to Start)">>

\* what readTasks returns when the file cannot be read
DefaultState == [nextId |-> 1, projectKey |-> "SB", issues |-> <<>>]

\* s.lastIndexOf(c), 0-based, -1 when absent
RECURSIVE lastIndexOf(_, _)
lastIndexOf(s, c) ==
    IF Len(s) = 0 THEN -1
    ELSE IF SubSeq(s, Len(s), Len(s)) = c THEN Len(s) - 1
    ELSE lastIndexOf(SubSeq(s, 1, Len(s) - 1), c)

\* keyToId[dep]: <<id>> of the last issue with that key, <<>> when undefined
keyToId(iss, dep) ==
    LET hits == {k \in DOMAIN iss : iss[k].key = dep}
    IN  IF hits = {} THEN <<>>
        ELSE <<iss[CHOOSE k \in hits : \A j \in hits : j <= k].id>>

\* dep => keyToId[dep] || parseInt(dep, 10)
resolveDep(iss, dep) ==
    LET hit == keyToId(iss, dep)
    IN  IF hit # <<>> /\ hit[1] # 0 THEN hit ELSE parseInt(dep)

\* i.dependsOn.map(...).filter(d => !isNaN(d))
resolveDeps(iss, deps) ==
    LET mapped == [k \in DOMAIN deps |-> resolveDep(iss, deps[k])]
        kept == SelectSeq(mapped, LAMBDA d : ~isNaN(d))
    IN  [k \in DOMAIN kept |-> kept[k][1]]

RECURSIVE maxId(_, _)
maxId(iss, m) ==
    IF iss = <<>> THEN m ELSE maxId(Tail(iss), Max(m, Head(iss).id))

\* lines 266-283 of readTasks, for the rows and column indices just stored
issuesOf(dataRows, col) ==
    LET all == [k \in DOMAIN dataRows |-> csvRowToIssue(col, dataRows[k])]
        kept == SelectSeq(all, LAMBDA i : ~isNaN(i.id))
    IN  [k \in DOMAIN kept |-> [kept[k] EXCEPT !.id = @[1]]]

\* the state container readTasks returns for the issues built from the rows
stateOf(iss) ==
    LET dash == IF iss = <<>> THEN -1 ELSE lastIndexOf(iss[1].key, "-")
    IN  [nextId |-> maxId(iss, 0) + 1,
         projectKey |-> IF dash > 0 THEN SubSeq(iss[1].key, 1, dash)
                        ELSE "SB",
         issues |-> [k \in DOMAIN iss |->
                        [iss[k] EXCEPT !.dependsOn = resolveDeps(iss, @)]]]

\* readTasks() on a file that exists, with the variables it assigns.
\* (Every intermediate result is bound as a value, so that it is computed
\* once.)
readTasks(data) ==
    TheOne({TheOne({TheOne({
        [csvHeaders |-> parsed.headers,
         csvDataRows |-> parsed.dataRows,
         colIndices |-> col,
         state |-> stateOf(iss)] :
            iss \in {issuesOf(parsed.dataRows, col)}}) :
            col \in {buildColIndices(parsed.headers)}}) :
            parsed \in {parseCSV(data)}})

\* issuesForCSV.find(i => i.id === id) for an id that occurs in the list
findIssue(iss, id) ==
    iss[CHOOSE k \in DOMAIN iss :
            /\ iss[k].id = id
            /\ \A j \in 1..(k - 1) : iss[j].id # id]

\* state.issues.map(i => ({...i, dependsOn: ... .map(depId => String(depId))}))
issuesForCSV(stateIssues) ==
    [k \in DOMAIN stateIssues |->
        [stateIssues[k] EXCEPT !.dependsOn =
            [j \in DOMAIN @ |-> ToString(@[j])]]]

\* lines 326-353 of writeTasks: orderedRows for headers h, column indices c,
\* the stored rows and the issues prepared for the CSV
orderedRows(h, c, rows, iss) ==
    LET updatedIds == {iss[k].id : k \in DOMAIN iss}
        rowId(row) == parseInt(getCell(row, c.issueId))
        present == SelectSeq(rows, LAMBDA row :
                       /\ ~isNaN(rowId(row))
                       /\ rowId(row)[1] \in updatedIds)
        appendedIds == {rowId(present[k])[1] : k \in DOMAIN present}
        added == SelectSeq(iss, LAMBDA i : i.id \notin appendedIds)
    IN  [k \in DOMAIN present |->
            issueToCSVRow(h, c, findIssue(iss, rowId(present[k])[1]),
                          present[k])]
        \o [k \in DOMAIN added |-> issueToCSVRow(h, c, added[k], <<>>)]

\* writeTasks(state), with the variables it assigns and the text it writes.
\* (Every intermediate result is bound as a value, so that it is computed
\* once.)
writeTasks(headers, dataRows, col, stateIssues) ==
    TheOne({TheOne({
        [csvHeaders |-> hc[1],
         csvDataRows |-> ordered,
         colIndices |-> hc[2],
         text |-> serializeCSV(hc[1], ordered)] :
            ordered \in {orderedRows(hc[1], hc[2], hc[3],
                                     issuesForCSV(stateIssues))}}) :
            hc \in {IF Len(headers) = 0
                    THEN <<DefaultHeaders, buildColIndices(DefaultHeaders),
                           <<>> >>
                    ELSE <<headers, col, dataRows>>}})

-----------------------------------------------------------------------------
(* The server and one client as a state machine *)

\* the tasks files the process may find: a two-row export with at most
\* MaxFileChanges of the changes below, an empty file, or no file
MaxFileChanges == 1
MaxEdits == 2

FileHeaders ==
    <<"Summary", "Issue key", "Issue id", "Status", "Priority", "Assignee",
      "Original Estimate", "Reporter", "Inward issue link (Depends)",
      "Inward issue link (Finish to Start)">>

BaseRows ==
    << <<"Alpha", "SB-1", "1", "Open", "Major", "Al", "3600", "ann", "", "">>,
       <<"Beta", "SB-2", "2", "Open", "Major", "", "", "bob", "1", "1">> >>

ThirdRow == <<"Gamma", "SB-3", "3", "Open", "Major", "Bo", "", "cy", "2", "2">>

\* <<row, header, value>>: the cell of that row is given that value;
\* <<0, "", "">> changes nothing and <<3, "", "">> appends ThirdRow
FileChanges ==
    { <<0, "", "">>, <<3, "", "">>,
      <<1, "Summary", "a,\"b\"">>,
      <<1, "Status", "Closed">>, <<1, "Status", "in review">>,
      <<1, "Priority", "Blocker">>,
      <<1, "Original Estimate", "0">>,
      <<2, "Issue id", "1">>, <<2, "Issue id", "x">>,
      <<2, "Inward issue link (Depends)", "SB-1">>,
      <<2, "Inward issue link (Depends)", "9">>,
      <<2, "Inward issue link (Finish to Start)", "">> }

ApplyFileChange(rows, c) ==
    IF c[1] = 0 THEN rows
    ELSE IF c[1] = 3 THEN (IF Len(rows) < 3 THEN Append(rows, ThirdRow)
                           ELSE rows)
    ELSE [rows EXCEPT ![c[1]] =
             setCell(@, indexOf(FileHeaders, c[2], 1), c[3])]

RECURSIVE ApplyFileChanges(_, _)
ApplyFileChanges(cs, n) ==
    IF n = 0 THEN BaseRows
    ELSE ApplyFileChange(ApplyFileChanges(cs, n - 1), cs[n])

StartFiles ==
    {[exists |-> TRUE,
      text |-> serializeCSV(FileHeaders, ApplyFileChanges(cs, MaxFileChanges))] :
        cs \in [1..MaxFileChanges -> FileChanges]}
    \cup {[exists |-> TRUE, text |-> ""], [exists |-> FALSE, text |-> ""]}

\* the replan variables while no run is modelled
SchedIdle ==
    /\ pc = "idle"
    /\ issues = <<>>
    /\ teamCapacity = <<>>
    /\ inDegree = <<>>
    /\ dependents = <<>>
    /\ queue = <<>>
    /\ sorted = <<>>
    /\ idx = 0
    /\ sprintRemaining = <<>>
    /\ issueSprint = <<>>
    /\ overflowed = {}

Ghost(op, prev, loaded, rows, iss) ==
    [op |-> op, prev |-> prev, loaded |-> loaded, rows |-> rows,
     issues |-> iss]

Init ==
    /\ SchedIdle
    /\ codec = CodecIdle
    /\ file \in StartFiles
    /\ csvHeaders = <<>>
    /\ csvDataRows = <<>>
    /\ colIndices = <<>>
    /\ client = DefaultState
    /\ edits = 0
    /\ last = Ghost("init", "", FALSE, <<>>, <<>>)
    /\ other = <<>>

\* GET /api/tasks: readTasks(), the result sent to the client
Load ==
    /\ IF file.exists
       THEN LET r == readTasks(file.text)
            IN  /\ csvHeaders' = r.csvHeaders
                /\ csvDataRows' = r.csvDataRows
                /\ colIndices' = r.colIndices
                /\ client' = r.state
       ELSE /\ client' = DefaultState
            /\ UNCHANGED <<csvHeaders, csvDataRows, colIndices>>
    /\ last' = Ghost("load", "", TRUE, <<>>, <<>>)
    /\ UNCHANGED <<file, edits>>
    /\ UNCHANGED <<schedVars, codec, other>>

\* PUT /api/tasks with the client's state: writeTasks(state)
Save ==
    /\ LET w == writeTasks(csvHeaders, csvDataRows, colIndices, client.issues)
       IN  /\ csvHeaders' = w.csvHeaders
           /\ csvDataRows' = w.csvDataRows
           /\ colIndices' = w.colIndices
           /\ file' = [exists |-> TRUE, text |-> w.text]
    /\ last' = Ghost("save", last.op, last.loaded, csvDataRows, client.issues)
    /\ UNCHANGED <<client, edits>>
    /\ UNCHANGED <<schedVars, codec, other>>

\* the values a client gives to a field of an issue it edits
EditChoices ==
    { <<"title", "Re,named">>, <<"status", "done">>, <<"priority", "low">>,
      <<"estimateHours", 7200>> }

Edited(op) == Ghost(op, "", last.loaded, <<>>, <<>>)

\* the client edits one field of an issue
EditIssue ==
    /\ edits < MaxEdits
    /\ \E k \in DOMAIN client.issues, e \in EditChoices :
          /\ client.issues[k][e[1]] # e[2]
          /\ client' = [client EXCEPT !.issues[k][e[1]] = e[2]]
    /\ edits' = edits + 1
    /\ last' = Edited("edit")
    /\ UNCHANGED <<file, csvHeaders, csvDataRows, colIndices>>
    /\ UNCHANGED <<schedVars, codec, other>>

\* the client makes an issue depend on another issue of its list
LinkIssue ==
    /\ edits < MaxEdits
    /\ \E k \in DOMAIN client.issues, j \in DOMAIN client.issues :
          /\ client.issues[j].id # client.issues[k].id
          /\ client.issues[j].id \notin Range(client.issues[k].dependsOn)
          /\ client' = [client EXCEPT !.issues[k].dependsOn =
                           Append(@, client.issues[j].id)]
    /\ edits' = edits + 1
    /\ last' = Edited("edit")
    /\ UNCHANGED <<file, csvHeaders, csvDataRows, colIndices>>
    /\ UNCHANGED <<schedVars, codec, other>>

\* the client removes an issue
DeleteIssue ==
    /\ edits < MaxEdits
    /\ \E k \in DOMAIN client.issues :
          client' = [client EXCEPT !.issues =
                        SubSeq(@, 1, k - 1) \o SubSeq(@, k + 1, Len(@))]
    /\ edits' = edits + 1
    /\ last' = Edited("edit")
    /\ UNCHANGED <<file, csvHeaders, csvDataRows, colIndices>>
    /\ UNCHANGED <<schedVars, codec, other>>

\* the client creates an issue, numbered nextId
AddIssue ==
    /\ edits < MaxEdits
    /\ client' = [client EXCEPT
          !.nextId = @ + 1,
          !.issues = Append(@,
              [id |-> client.nextId,
               key |-> client.projectKey \o "-" \o ToString(client.nextId),
               title |-> "New", description |-> "", status |-> "todo",
               priority |-> "medium", assignee |-> "", estimateHours |-> 0,
               dependsOn |-> <<>>, sprint |-> 1, rawRow |-> <<>>])]
    /\ edits' = edits + 1
    /\ last' = Edited("edit")
    /\ UNCHANGED <<file, csvHeaders, csvDataRows, colIndices>>
    /\ UNCHANGED <<schedVars, codec, other>>

\* the client reorders its list (a replan does): an issue moves to the front
MoveIssue ==
    /\ edits < MaxEdits
    /\ \E k \in 2..Len(client.issues) :
          client' = [client EXCEPT !.issues =
                        <<@[k]>> \o SubSeq(@, 1, k - 1)
                                 \o SubSeq(@, k + 1, Len(@))]
    /\ edits' = edits + 1
    /\ last' = Edited("edit")
    /\ UNCHANGED <<file, csvHeaders, csvDataRows, colIndices>>
    /\ UNCHANGED <<schedVars, codec, other>>

Next ==
    \/ Load
    \/ Save
    \/ EditIssue
    \/ LinkIssue
    \/ DeleteIssue
    \/ AddIssue
    \/ MoveIssue

Spec == Init /\ [][Next]_vars

-----------------------------------------------------------------------------
(* The server and two clients, with request bodies that are not a state *)

\* the number of times the sender of the requests changes
MaxSwitches == 2

\* the tasks files the two clients find: the two-row export, and the same
\* with the second row carrying the first's id
ServerFiles ==
    {[exists |-> TRUE, text |-> serializeCSV(FileHeaders, rows)] :
        rows \in {BaseRows,
                  ApplyFileChange(BaseRows, <<2, "Issue id", "1">>)}}

\* the client that is not sending the next request: its state container,
\* whether it has loaded, and whether its latest request was a save; with
\* the number of switches so far
Waiting(state, loaded, saved, turns) ==
    [state |-> state, loaded |-> loaded, saved |-> saved, turns |-> turns]

ServerInit ==
    /\ SchedIdle
    /\ codec = CodecIdle
    /\ file \in ServerFiles
    /\ csvHeaders = <<>>
    /\ csvDataRows = <<>>
    /\ colIndices = <<>>
    /\ client = DefaultState
    /\ edits = 0
    /\ last = Ghost("init", "", FALSE, <<>>, <<>>)
    /\ other = Waiting(DefaultState, FALSE, FALSE, 0)

\* the next request comes from the other client
SwitchClient ==
    /\ other.turns < MaxSwitches
    /\ client' = other.state
    /\ other' = Waiting(client, last.loaded, last.op = "save",
                        other.turns + 1)
    /\ last' = Ghost("switch", "", other.loaded, <<>>, <<>>)
    /\ UNCHANGED <<file, csvHeaders, csvDataRows, colIndices, edits>>
    /\ UNCHANGED <<schedVars, codec>>

\* request bodies that are not a state: text JSON.parse rejects, and JSON
\* without an issue list (state.issues undefined)
Payloads == {"unparseable", "noIssues"}

\* a mutation of writeTasksWithoutIssues: the file is written before the
\* issue list is read
writeTasksWritesFirst(headers, dataRows, col) ==
    LET hc == IF Len(headers) = 0
              THEN <<DefaultHeaders, buildColIndices(DefaultHeaders), <<>> >>
              ELSE <<headers, col, dataRows>>
    IN  [csvHeaders |-> hc[1], csvDataRows |-> hc[3], colIndices |-> hc[2],
         threw |-> TRUE, written |-> TRUE,
         text |-> serializeCSV(hc[1], hc[3])]

\* writeTasks(state) for a state without an issue list: the default headers
\* are installed when none are loaded, then state.issues.map throws, before
\* csvDataRows is assigned and before the file is written
writeTasksWithoutIssues(headers, dataRows, col) ==
    LET hc == IF Len(headers) = 0
              THEN <<DefaultHeaders, buildColIndices(DefaultHeaders), <<>> >>
              ELSE <<headers, col, dataRows>>
    IN  [csvHeaders |-> hc[1], csvDataRows |-> hc[3], colIndices |-> hc[2],
         threw |-> TRUE, written |-> FALSE, text |-> ""]

\* PUT /api/tasks with such a body: JSON.parse or writeTasks throws, the
\* handler catches and answers 400 (last.op = "failed")
SaveMalformed ==
    /\ \E body \in Payloads :
          IF body = "unparseable"
          THEN /\ UNCHANGED <<file, csvHeaders, csvDataRows, colIndices>>
               /\ last' = Ghost("failed", "", last.loaded, <<>>, <<>>)
          ELSE LET w == writeTasksWithoutIssues(csvHeaders, csvDataRows,
                                                colIndices)
               IN  /\ csvHeaders' = w.csvHeaders
                   /\ csvDataRows' = w.csvDataRows
                   /\ colIndices' = w.colIndices
                   /\ file' = IF w.written
                              THEN [exists |-> TRUE, text |-> w.text]
                              ELSE file
                   /\ last' = Ghost(IF w.threw THEN "failed" ELSE "save",
                                    "", last.loaded, <<>>, <<>>)
    /\ UNCHANGED <<client, edits>>
    /\ UNCHANGED <<schedVars, codec, other>>

\* a client saves the copy it has loaded, when it has just modified it
SaveLoaded ==
    /\ last.loaded
    /\ last.op = "edit"
    /\ Save

ServerNext ==
    \/ Load
    \/ SaveLoaded
    \/ EditIssue
    \/ LinkIssue
    \/ DeleteIssue
    \/ AddIssue
    \/ MoveIssue
    \/ SwitchClient

SpecServer == ServerInit /\ [][ServerNext]_vars

\* the server, and one client that also sends bodies that are not a state
PutNext ==
    \/ Load
    \/ Save
    \/ AddIssue
    \/ SaveMalformed

SpecPut == Init /\ [][PutNext]_vars

-----------------------------------------------------------------------------
(* serializeCSV and parseCSV on their own *)

\* headers of 1..MaxCols columns and up to MaxRows rows of as many cells,
\* every cell one of CodecFields
MaxCols == 2
MaxRows == 2

CodecFields == {"", "a", ",", "\"", "\n", "b\r"}

CodecRowsOf(n) == [1..n -> CodecFields]

CodecInit ==
    /\ SchedIdle
    /\ file = [exists |-> FALSE, text |-> ""]
    /\ csvHeaders = <<>>
    /\ csvDataRows = <<>>
    /\ colIndices = <<>>
    /\ client = <<>>
    /\ edits = 0
    /\ last = <<>>
    /\ other = <<>>
    /\ \E n \in 1..MaxCols, m \in 0..MaxRows :
          \E h \in CodecRowsOf(n), rs \in [1..m -> CodecRowsOf(n)] :
             codec = [pc |-> "input", headers |-> h, rows |-> rs]

\* serializeCSV(headers, rows)
CodecSerialize ==
    /\ codec.pc = "input"
    /\ codec' = [pc |-> "text", headers |-> codec.headers,
                 rows |-> codec.rows,
                 text |-> serializeCSV(codec.headers, codec.rows)]
    /\ UNCHANGED <<schedVars, storeVars>>

\* parseCSV(text)
CodecParse ==
    /\ codec.pc = "text"
    /\ codec' = [pc |-> "parsed", headers |-> codec.headers,
                 rows |-> codec.rows, text |-> codec.text,
                 parsed |-> parseCSV(codec.text)]
    /\ UNCHANGED <<schedVars, storeVars>>

CodecNext ==
    \/ CodecSerialize
    \/ CodecParse

SpecCodec == CodecInit /\ [][CodecNext]_vars

-----------------------------------------------------------------------------
(* Properties of replan *)

\* positions of the issues in replan's output sequence so far
Scheduled == Range(sorted)

\* positions of the issues the placement loop has handled
Placed == {sorted[k] : k \in 1..idx}

\* the dependencies of the issue at p that are issues of the list
DepsInSet(iss, p) ==
    {byId(iss)[d] : d \in Range(iss[p].dependsOn) \cap DOMAIN byId(iss)}

\* the positions reachable from those in from over one or more
\* dependency edges
RECURSIVE DepClosure(_, _, _)
DepClosure(iss, from, seen) ==
    LET next == (UNION {DepsInSet(iss, p) : p \in from}) \ seen
    IN  IF next = {} THEN seen
        ELSE DepClosure(iss, next, seen \cup next)

DependsOnPlus(iss, p) == DepClosure(iss, {p}, {})

OnCycle(iss, p) == p \in DependsOnPlus(iss, p)

CapacityOf(member) ==
    IF member \in DOMAIN teamCapacity THEN teamCapacity[member]
    ELSE DefaultCapacity

\* the hours of the issues of ps, summed
RECURSIVE HoursOf(_)
HoursOf(ps) ==
    IF ps = {} THEN 0
    ELSE LET p == CHOOSE q \in ps : TRUE
         IN  issues[p].estimateHours + HoursOf(ps \ {p})

CapacityFree(p) == issues[p].assignee = "" \/ issues[p].estimateHours = 0

\* C1: after replan, no scheduled issue is in an earlier sprint than any
\* of its scheduled dependencies, whichever path placed it
C1_DependencyOrder ==
    pc = "done" =>
        \A p \in Scheduled : \A d \in DepsInSet(issues, p) :
            d \in Scheduled => issues[p].sprint >= issues[d].sprint

\* a capacity-free issue placed behind a dependency that the scan pushed
\* past the ceiling
C1_Witness ==
    /\ pc = "done"
    /\ \E p \in Scheduled : \E d \in DepsInSet(issues, p) \cap Scheduled :
        /\ CapacityFree(p)
        /\ issues[d].id \in overflowed
        /\ issues[d].sprint > SprintCeiling
        /\ issues[p].sprint = issues[d].sprint

\* C2: after replan, per sprint and assignee the estimates of the issues
\* placed there by a successful scan sum to at most the assignee's capacity
C2_Capacity ==
    pc = "done" =>
        \A p \in Scheduled :
            issues[p].assignee # "" =>
                HoursOf({q \in Scheduled :
                            /\ issues[q].sprint = issues[p].sprint
                            /\ issues[q].assignee = issues[p].assignee
                            /\ issues[q].id \notin overflowed})
                    <= CapacityOf(issues[p].assignee)

\* two estimated issues of one assignee fill a sprint exactly, a third one
\* had to move on
C2_Witness ==
    /\ pc = "done"
    /\ \E p, q, r \in Scheduled :
        /\ p # q
        /\ issues[p].assignee # ""
        /\ issues[q].assignee = issues[p].assignee
        /\ issues[r].assignee = issues[p].assignee
        /\ issues[p].estimateHours > 0
        /\ issues[q].estimateHours > 0
        /\ issues[q].sprint = issues[p].sprint
        /\ issues[p].estimateHours + issues[q].estimateHours
              = CapacityOf(issues[p].assignee)
        /\ issues[r].sprint > issues[p].sprint
        /\ overflowed = {}

\* number of entries of s equal to x
Occurrences(s, x) == Cardinality({k \in 1..Len(s) : s[k] = x})

\* C3: replan does not fail on cyclic input (no issue enters the ready
\* list or the output twice, so the loop of topoSort ends after at most one
\* iteration per issue, and no issue of a cycle ever enters them); its
\* output holds no issue of a dependency cycle, and every issue that is
\* neither on a cycle nor depends on one (transitively) is in the output
\* exactly once
C3_Cycles ==
    /\ \A p \in DOMAIN issues :
        /\ Occurrences(sorted \o queue, p) <= 1
        /\ OnCycle(issues, p) => p \notin Range(sorted \o queue)
    /\ pc = "done" =>
        \A p \in DOMAIN issues :
            (/\ ~OnCycle(issues, p)
             /\ \A q \in DependsOnPlus(issues, p) : ~OnCycle(issues, q))
                => Occurrences(sorted, p) = 1

\* a cycle of two issues is left out while the third issue is scheduled
C3_Witness ==
    /\ pc = "done"
    /\ \E x, y, z \in DOMAIN issues :
        /\ x # y
        /\ x \in DepsInSet(issues, y)
        /\ y \in DepsInSet(issues, x)
        /\ x \notin Scheduled
        /\ y \notin Scheduled
        /\ ~OnCycle(issues, z)
        /\ z \in Scheduled

\* C4 as claimed: the scan is bounded by the ceiling of 100, so an issue
\* whose scan finds no room is put into sprint 100 and no placed issue has
\* a sprint above 100
C4_CeilingAsClaimed ==
    \A p \in Placed :
        /\ issues[p].sprint <= SprintCeiling
        /\ issues[p].id \in overflowed => issues[p].sprint = SprintCeiling

\* the earliest sprint of a scheduled issue, from its dependencies' sprints
EarliestOf(p) == earliestOf(issueSprint, 1, issues[p].dependsOn)

\* high H and medium/low M, both scheduled, same assignee and estimate,
\* no dependency path between them, same earliest sprint
C5_Pair(h, m) ==
    /\ h \in Scheduled
    /\ m \in Scheduled
    /\ issues[h].priority = "high"
    /\ issues[m].priority \in {"medium", "low"}
    /\ issues[h].assignee = issues[m].assignee
    /\ issues[h].estimateHours = issues[m].estimateHours
    /\ h \notin DependsOnPlus(issues, m)
    /\ m \notin DependsOnPlus(issues, h)
    /\ EarliestOf(h) = EarliestOf(m)

\* C5 as claimed: such an H is never in a later sprint than M
C5_PriorityAsClaimed ==
    pc = "done" =>
        \A h, m \in DOMAIN issues :
            C5_Pair(h, m) => issues[h].sprint <= issues[m].sprint

\* C5, amended: H and M have, in addition, the same dependencies among the
\* issues of the list (they become ready together); then H is never in a
\* later sprint than M
C5_PrioritySameDeps ==
    pc = "done" =>
        \A h, m \in DOMAIN issues :
            (C5_Pair(h, m) /\ DepsInSet(issues, h) = DepsInSet(issues, m))
                => issues[h].sprint <= issues[m].sprint

\* H and M wait for the same dependency, compete for the same capacity,
\* and H got the earlier sprint
C5_Witness ==
    /\ pc = "done"
    /\ \E h, m \in DOMAIN issues :
        /\ C5_Pair(h, m)
        /\ DepsInSet(issues, h) = DepsInSet(issues, m)
        /\ DepsInSet(issues, h) # {}
        /\ issues[h].assignee # ""
        /\ issues[h].estimateHours > 0
        /\ issues[h].sprint < issues[m].sprint

\* the input with the self-reference removed from the dependsOn of p
WithoutSelfLoop(iss, p) ==
    [iss EXCEPT ![p].dependsOn =
        SelectSeq(@, LAMBDA d : d # iss[p].id)]

\* C6 as claimed: an issue that lists its own id in dependsOn is scheduled
\* as if the self-reference were absent
C6_SelfLoopAsClaimed ==
    pc = "done" =>
        \A p \in DOMAIN issues :
            issues[p].id \in Range(issues[p].dependsOn) =>
                LET without == replan(WithoutSelfLoop(issues, p), teamCapacity)
                IN  /\ p \in Scheduled
                    /\ (p \in Range(without.sorted)
                          => issues[p].sprint = without.issues[p].sprint)

-----------------------------------------------------------------------------
(* Properties of the steps of replan *)

\* the largest sprint recorded so far for a dependency of the issue at p,
\* 1 when none is recorded
EarliestNow(p) ==
    LET S == {issueSprint[d] :
                 d \in Range(issues[p].dependsOn) \cap DOMAIN issueSprint}
    IN  IF S = {} THEN 1 ELSE CHOOSE m \in S : \A n \in S : m >= n

\* the step places the issue at p
Placing(p) ==
    /\ pc = "place"
    /\ idx < Len(sorted)
    /\ idx' = idx + 1
    /\ p = sorted[idx + 1]

\* the hours the member has left in the sprint according to a table
RemainingIn(rem, sprint, member) ==
    IF <<sprint, member>> \in DOMAIN rem THEN rem[<<sprint, member>>]
    ELSE CapacityOf(member)

Members == {issues[k].assignee : k \in DOMAIN issues} \ {""}

\* C14: an issue without assignee or with zero estimate gets exactly the
\* sprint earliest, and placing it changes no remaining capacity
C14_CapacityFree ==
    [][\A p \in DOMAIN issues :
          (Placing(p) /\ CapacityFree(p))
              => /\ issues'[p].sprint = EarliestNow(p)
                 /\ sprintRemaining' = sprintRemaining]_vars

\* a capacity-free issue has just been placed in a later sprint than 1,
\* behind a dependency whose placement used capacity
C14_Witness ==
    /\ pc = "place"
    /\ idx >= 1
    /\ CapacityFree(sorted[idx])
    /\ issues[sorted[idx]].sprint > 1
    /\ sprintRemaining # <<>>

\* C15 as claimed: in the sequence replan returns, the issues of one sprint
\* appear by priority, then by key
C15_SprintOrderAsClaimed ==
    pc = "done" =>
        \A j, k \in DOMAIN sorted :
            (j < k /\ issues[sorted[j]].sprint = issues[sorted[k]].sprint)
                => ~Before(issues[sorted[k]], issues[sorted[j]])

\* the same for the issues that have no dependency in the list
SprintOrderWithoutDependencies ==
    pc = "done" =>
        \A j, k \in DOMAIN sorted :
            (/\ j < k
             /\ issues[sorted[j]].sprint = issues[sorted[k]].sprint
             /\ DepsInSet(issues, sorted[j]) = {}
             /\ DepsInSet(issues, sorted[k]) = {})
                => ~Before(issues[sorted[k]], issues[sorted[j]])

\* the issues not yet emitted whose dependencies in the list are all emitted
Ready ==
    {p \in DOMAIN issues :
        /\ p \notin Range(sorted)
        /\ \A d \in DepsInSet(issues, p) : d \in Range(sorted)}

\* C17: during topoSort the queue is sorted by (priority weight, key), the
\* issue it removes next is a minimum of the ready issues, and every issue
\* of the output comes after its dependencies that are in the list
C17_ReadyListSorted ==
    /\ pc = "topo" =>
          /\ \A j, k \in DOMAIN queue :
                j < k => ~Before(issues[queue[k]], issues[queue[j]])
          /\ queue # <<>> =>
                /\ Head(queue) \in Ready
                /\ \A r \in Ready : ~Before(issues[r], issues[Head(queue)])
    /\ pc \in {"topo", "place", "done"} =>
          \A k \in DOMAIN sorted : \A d \in DepsInSet(issues, sorted[k]) :
              \E j \in 1..(k - 1) : sorted[j] = d

\* an issue freed by the output of its dependency stands in the queue ahead
\* of an issue that was ready from the start
C17_Witness ==
    /\ pc = "topo"
    /\ Len(sorted) >= 1
    /\ Len(queue) >= 2
    /\ DepsInSet(issues, Head(queue)) # {}
    /\ DepsInSet(issues, queue[2]) = {}

\* C18: an issue with assignee and positive estimate placed in a sprint s
\* up to the ceiling found enough hours left in s and too few in every
\* sprint from earliest to s - 1, and the placement changes only the hours
\* left of (s, assignee), by exactly the estimate
C18_FirstFit ==
    [][\A p \in DOMAIN issues :
          (Placing(p) /\ ~CapacityFree(p)
             /\ issues'[p].sprint <= SprintCeiling)
              => LET s == issues'[p].sprint
                     a == issues[p].assignee
                     h == issues[p].estimateHours
                 IN  /\ s >= EarliestNow(p)
                     /\ RemainingIn(sprintRemaining, s, a) >= h
                     /\ \A t \in EarliestNow(p)..(s - 1) :
                           RemainingIn(sprintRemaining, t, a) < h
                     /\ \A t \in 1..(SprintCeiling + 1), m \in Members :
                           RemainingIn(sprintRemaining', t, m) =
                               RemainingIn(sprintRemaining, t, m)
                                 - (IF t = s /\ m = a THEN h ELSE 0)]_vars

\* an estimated issue has just been placed past a sprint that had too few
\* hours left for it
C18_Witness ==
    /\ pc = "place"
    /\ idx >= 1
    /\ ~CapacityFree(sorted[idx])
    /\ issues[sorted[idx]].sprint > EarliestOf(sorted[idx])
    /\ issues[sorted[idx]].sprint <= SprintCeiling

\* the orderings of the input list
Orderings ==
    {f \in [DOMAIN issues -> DOMAIN issues] :
        \A j, k \in DOMAIN issues : j # k => f[j] # f[k]}

\* values the sprint fields may hold before the run
PriorSprints == [DOMAIN issues -> {1, 9}]

\* C19: replan run on the same issues in any order of the list, with any
\* prior sprint fields, schedules the same issues in the same sprints; and
\* run on its own output, for an input without cycle, it assigns every
\* sprint again
C19_OrderIndependent ==
    pc = "done" =>
        /\ \A f \in Orderings, v \in PriorSprints :
              LET input == [k \in DOMAIN issues |->
                               [issues[f[k]] EXCEPT !.sprint = v[k]]]
                  r == replan(input, teamCapacity)
              IN  \A k \in DOMAIN input :
                      IF f[k] \in Scheduled
                      THEN /\ k \in Range(r.sorted)
                           /\ r.issues[k].sprint = issues[f[k]].sprint
                      ELSE k \notin Range(r.sorted)
        /\ Scheduled = DOMAIN issues =>
              LET output == [k \in DOMAIN sorted |-> issues[sorted[k]]]
                  r == replan(output, teamCapacity)
              IN  /\ Range(r.sorted) = DOMAIN output
                  /\ \A k \in DOMAIN output :
                        r.issues[k].sprint = output[k].sprint

\* issues of one priority and one assignee ended in different sprints, the
\* one later in the input list in the earlier sprint: the key decided, not
\* the position
C19_Witness ==
    /\ pc = "done"
    /\ \E j, k \in Scheduled :
          /\ j < k
          /\ issues[j].priority = issues[k].priority
          /\ issues[j].assignee = issues[k].assignee
          /\ ~CapacityFree(j)
          /\ ~CapacityFree(k)
          /\ issues[k].sprint < issues[j].sprint

-----------------------------------------------------------------------------
(* Properties of the store *)

\* the data rows the tasks file holds
Persisted == parseCSV(file.text).dataRows

\* parseInt of the Issue id cell of a row, under the current column indices
RowId(row) == parseInt(getCell(row, colIndices.issueId))

\* the ids of the issues of a list
IdsOf(iss) == {iss[k].id : k \in DOMAIN iss}

\* the rows of a list whose Issue id parses to one of ids
WithIdIn(rows, ids) ==
    SelectSeq(rows, LAMBDA r : ~isNaN(RowId(r)) /\ RowId(r)[1] \in ids)

\* the first row of every Issue id, in order
RECURSIVE OnePerId(_, _)
OnePerId(rows, seen) ==
    IF rows = <<>> THEN <<>>
    ELSE IF RowId(Head(rows)) \in seen THEN OnePerId(Tail(rows), seen)
    ELSE <<Head(rows)>> \o OnePerId(Tail(rows), seen \cup {RowId(Head(rows))})

\* the Issue ids a save that started from rows with the list L is claimed
\* to persist, in order
ClaimedRowIds(rows, L) ==
    LET old == OnePerId(WithIdIn(rows, IdsOf(L)), {})
        loadedIds == {RowId(rows[k])[1] :
                         k \in {j \in DOMAIN rows : ~isNaN(RowId(rows[j]))}}
        new == SelectSeq(L, LAMBDA i : i.id \notin loadedIds)
    IN  [k \in DOMAIN old |-> RowId(old[k])]
        \o [k \in DOMAIN new |-> <<new[k].id>>]

\* C7 as claimed: after a save with the list L that follows a load, the
\* persisted rows are the loaded rows, in their order, of the ids that occur
\* in L, one row per id, followed by the issues of L that matched no loaded
\* row, in L's order
C7_RowOrderAsClaimed ==
    (last.op = "save" /\ last.loaded) =>
        [k \in DOMAIN Persisted |-> RowId(Persisted[k])]
            = ClaimedRowIds(last.rows, last.issues)

\* no two rows of the list have the same parsed Issue id
DistinctRowIds(rows) ==
    \A a, b \in DOMAIN rows :
        (a # b /\ ~isNaN(RowId(rows[a]))) => RowId(rows[a]) # RowId(rows[b])

\* the row order of C7 for saves that start from rows with distinct ids:
\* the order fails only where two stored rows carry one id
RowOrderWithDistinctIds ==
    (last.op = "save" /\ DistinctRowIds(last.rows)) =>
        [k \in DOMAIN Persisted |-> RowId(Persisted[k])]
            = ClaimedRowIds(last.rows, last.issues)

\* two rows agree in the columns of the given 1-based positions
SameCells(a, b, cols) == \A j \in cols : getCell(a, j - 1) = getCell(b, j - 1)

\* C8 as claimed: a save of the unmodified result of a load leaves every
\* retained row with the same value in every column, in the original order
C8_IdempotenceAsClaimed ==
    (last.op = "save" /\ last.prev = "load") =>
        LET retained == WithIdIn(last.rows, IdsOf(last.issues))
        IN  /\ Len(Persisted) = Len(retained)
            /\ \A k \in DOMAIN retained :
                  SameCells(Persisted[k], retained[k], DOMAIN csvHeaders)

\* the columns issueToCSVRow writes
ModeledColumns ==
    {"Summary", "Issue key", "Issue id", "Status", "Priority", "Assignee",
     "Description", "Original Estimate", "Inward issue link (Depends)",
     "Inward issue link (Finish to Start)"}

Passthrough == {j \in DOMAIN csvHeaders : csvHeaders[j] \notin ModeledColumns}

\* C9 as claimed: after a save, a persisted row whose id matched a row the
\* save started from holds, in every column that is not modeled, the value
\* that row had
C9_PassthroughAsClaimed ==
    last.op = "save" =>
        \A k \in DOMAIN Persisted, j \in DOMAIN last.rows :
            (~isNaN(RowId(last.rows[j]))
                /\ RowId(Persisted[k]) = RowId(last.rows[j]))
                => SameCells(Persisted[k], last.rows[j], Passthrough)

\* the passthrough property of C9 for saves that start from rows with
\* distinct ids
PassthroughWithDistinctIds ==
    (last.op = "save" /\ DistinctRowIds(last.rows)) =>
        \A k \in DOMAIN Persisted, j \in DOMAIN last.rows :
            (~isNaN(RowId(last.rows[j]))
                /\ RowId(Persisted[k]) = RowId(last.rows[j]))
                => SameCells(Persisted[k], last.rows[j], Passthrough)

\* C10 as claimed: in the state container a load returns, every dependsOn
\* holds only ids of issues of its list
C10_NoDanglingAsClaimed ==
    last.op = "load" =>
        \A k \in DOMAIN client.issues :
            Range(client.issues[k].dependsOn) \subseteq IdsOf(client.issues)

-----------------------------------------------------------------------------
(* Properties of the codec *)

\* C11 as claimed: parseCSV(serializeCSV(headers, rows)) gives back the
\* same headers and the same rows, whatever commas, quotes and line breaks
\* the cells hold
C11_RoundTripAsClaimed ==
    codec.pc = "parsed" =>
        /\ codec.parsed.headers = codec.headers
        /\ codec.parsed.dataRows = codec.rows

\* the round trip for headers of two or more columns, and for one column
\* when no data row is the empty cell
RoundTripButBlankLines ==
    (codec.pc = "parsed"
        /\ (Len(codec.headers) > 1
              \/ \A k \in DOMAIN codec.rows : codec.rows[k] # <<"">>)) =>
        /\ codec.parsed.headers = codec.headers
        /\ codec.parsed.dataRows = codec.rows


-----------------------------------------------------------------------------
(* Properties of the server with two clients *)

\* the ids and modeled field values of a list of issues
Modeled(iss) ==
    { [id |-> iss[k].id, key |-> iss[k].key, title |-> iss[k].title,
       description |-> iss[k].description, status |-> iss[k].status,
       priority |-> iss[k].priority, assignee |-> iss[k].assignee,
       estimateHours |-> iss[k].estimateHours,
       dependsOn |-> iss[k].dependsOn] : k \in DOMAIN iss }

\* the issues the file holds, as a load returns them
PersistedIssues == Modeled(readTasks(file.text).state.issues)

\* both clients have loaded, the waiting one has saved and the other one's
\* save has just been processed
BothSaved ==
    /\ last.op = "save"
    /\ last.loaded
    /\ other.loaded
    /\ other.saved

DistinctIssueIds(iss) ==
    \A j, k \in DOMAIN iss : j # k => iss[j].id # iss[k].id

\* C12 as claimed: once two clients that each loaded have both saved, the
\* persisted issues (ids and modeled field values) are exactly those of the
\* save processed last
C12_LastWriteWinsAsClaimed ==
    BothSaved => PersistedIssues = Modeled(client.issues)

\* the same for a last save whose issues have distinct ids
LastWriteWinsWithDistinctIds ==
    (BothSaved /\ DistinctIssueIds(client.issues))
        => PersistedIssues = Modeled(client.issues)

\* the two saves differed and the last one was sent from a copy loaded
\* before the earlier one
LastWriteWinsHappens ==
    /\ BothSaved
    /\ DistinctIssueIds(client.issues)
    /\ Modeled(other.state.issues) # Modeled(client.issues)
    /\ PersistedIssues = Modeled(client.issues)

-----------------------------------------------------------------------------
(* Properties of load and save *)

\* C16 as claimed: the state container a load returns has no two issues
\* with the same id
C16_UniqueIdsAsClaimed ==
    last.op = "load" => DistinctIssueIds(client.issues)

\* the header row of a tasks file
HeaderRow(f) == parseCSV(f.text).headers

\* C20 as claimed: no load or save, in any order, changes the header row of
\* a tasks file that exists and has one
C20_HeaderKeptAsClaimed ==
    [][(file.exists /\ HeaderRow(file) # <<>>)
          => HeaderRow(file') = HeaderRow(file)]_vars

\* the same once the process holds the header row of the file
HeaderKeptOnceLoaded ==
    [][(file.exists /\ csvHeaders # <<>> /\ csvHeaders = HeaderRow(file))
          => HeaderRow(file') = HeaderRow(file)]_vars

\* the fields a save and a following load are to return, with dependsOn
\* as the set of the dependencies that are ids in ids
SavedFields(i, ids) ==
    [id |-> i.id, key |-> i.key, title |-> i.title,
     description |-> i.description, assignee |-> i.assignee,
     status |-> i.status, priority |-> i.priority,
     estimateHours |-> i.estimateHours,
     dependsOn |-> Range(i.dependsOn) \cap ids]

\* the step is a load that follows a save, and the state container it
\* returns has every saved issue with the fields it was saved with
LoadReturnsSaved ==
    LET saved == last.issues
        ids == {saved[k].id : k \in DOMAIN saved}
    IN  \A k \in DOMAIN saved :
            \E j \in DOMAIN client'.issues :
                SavedFields(client'.issues[j], ids) = SavedFields(saved[k], ids)

\* C21 as claimed: a load that follows a save returns every saved issue with
\* the id, key, title, description, assignee, status, priority,
\* estimateHours and dependencies on saved issues it was saved with
C21_SaveLoadAsClaimed ==
    [][(last.op = "save" /\ last'.op = "load") => LoadReturnsSaved]_vars

\* the same when the saved issues have distinct ids and the header row has
\* the column of the estimate
SaveLoadWithEstimateColumn ==
    [][(/\ last.op = "save"
        /\ last'.op = "load"
        /\ DistinctIssueIds(last.issues)
        /\ colIndices.originalEstimate >= 0) => LoadReturnsSaved]_vars

=============================================================================
